---- MODULE Spec2Model ----
(***************************************************************************)
(* Model of main.py: the AI Summarizer Service.                            *)
(*                                                                         *)
(* Module start-up (environment check, MongoDB connect, inference client)  *)
(* followed by the three endpoints root, summarize_text and get_history,   *)
(* each request handled by one worker context.  The remote inference       *)
(* client, the document store's availability and the wall clock are the    *)
(* environment: their results are chosen nondeterministically.             *)
(***************************************************************************)
EXTENDS Integers, Sequences, FiniteSets, TLC

(***************************************************************************)
(* Bounds of the model.                                                    *)
(***************************************************************************)
\* summarize requests accepted in one behaviour of Spec
MaxRequests == 1
\* utcnow() reads a value in 0..MaxClock
MaxClock == 1
\* explicit limit query parameters are drawn from -1..MaxLimit
MaxLimit == 2

\* The worker contexts of the hosting runtime.
Workers == {"w1", "w2"}

None == "None"

(***************************************************************************)
(* Strings.  A message is the sequence of its characters.                  *)
(***************************************************************************)
UpperCase == <<"A","B","C","D","E","F","G","H","I","J","K","L","M",
               "N","O","P","Q","R","S","T","U","V","W","X","Y","Z">>
LowerCase == <<"a","b","c","d","e","f","g","h","i","j","k","l","m",
               "n","o","p","q","r","s","t","u","v","w","x","y","z">>

\* str.lower() on one character
LowerChar(c) ==
    IF \E i \in 1..Len(UpperCase) : UpperCase[i] = c
    THEN LowerCase[CHOOSE i \in 1..Len(UpperCase) : UpperCase[i] = c]
    ELSE c

\* str.lower()
lower(s) == [i \in 1..Len(s) |-> LowerChar(s[i])]

\* Python's `sub in s` on strings
Contains(sub, s) ==
    \E i \in 0..(Len(s) - Len(sub)) : SubSeq(s, i + 1, i + Len(sub)) = sub

timed_out == <<"t","i","m","e","d"," ","o","u","t">>

\* str(n) for n >= 0
Digit(d) == <<"0","1","2","3","4","5","6","7","8","9">>[d + 1]

RECURSIVE str(_)
str(n) == IF n < 10 THEN <<Digit(n)>> ELSE str(n \div 10) \o <<Digit(n % 10)>>

(***************************************************************************)
(* Request texts.  A text is a run of one character: [ch, len] stands for  *)
(* the string ch * len, so that len(text) is its len field.                *)
(***************************************************************************)
max_length == 1024
max_retries == 3
default_limit == 10

TextLen(t) == t.len

Texts == { [ch |-> "a", len |-> n] : n \in {0, 1, max_length, max_length + 1} }

(***************************************************************************)
(* The inference client's possible results for one call.                   *)
(***************************************************************************)
Summaries == {"s1", "s2"}

\* messages of generic exceptions raised by the client
MsgReadTimedOut == <<"R","e","a","d"," ","T","i","m","e","d"," ","O","u","t">>
MsgTimeout      == <<"t","i","m","e","o","u","t">>
ErrorMessages == {MsgReadTimedOut, MsgTimeout}

Outcomes ==
    { [kind |-> "ok", summary_text |-> s, msg |-> <<>>] : s \in Summaries }
    \cup { [kind |-> "InferenceTimeoutError", summary_text |-> None, msg |-> <<>>] }
    \cup { [kind |-> "Exception", summary_text |-> None, msg |-> m] : m \in ErrorMessages }


(***************************************************************************)
(* State.                                                                  *)
(***************************************************************************)
VARIABLES
    MONGO_URI,      \* os.getenv("MONGO_URI"): None, "" or a connection string
    HF_TOKEN,       \* os.getenv("HF_TOKEN"): None, "" or a token
    boot,           \* position of the module's start-up code
    collection,     \* None while the name is unbound, else the collection handle
    startup_log,    \* what the MongoDB connect block printed
    store,          \* the documents of the summaries collection, in insertion order
    accepted,       \* summarize requests accepted so far
    ctx             \* per worker: the request it handles and the handler's locals

vars == <<MONGO_URI, HF_TOKEN, boot, collection, startup_log, store, accepted, ctx>>

EnvValues == {None, "", "set"}

\* Python truth value of an environment value: None and "" are falsy
Falsy(v) == v = None \/ v = ""

NoDetail == [head |-> "", arg |-> <<>>, tail |-> ""]
NoResp == [kind |-> "none", status_code |-> 0, detail |-> NoDetail]
NoText == [ch |-> "", len |-> 0]

IdleCtx ==
    [pc |-> "idle", handler |-> None, text |-> NoText, attempt |-> 0,
     wait_time |-> 0, summary_result |-> None, limit |-> 0, log |-> <<>>,
     resp |-> NoResp]

Init ==
    /\ MONGO_URI \in EnvValues
    /\ HF_TOKEN \in EnvValues
    /\ boot = "load_env"
    /\ collection = None
    /\ startup_log = <<>>
    /\ store = <<>>
    /\ accepted = 0
    /\ ctx = [w \in Workers |-> IdleCtx]

(***************************************************************************)
(* Module start-up.                                                        *)
(***************************************************************************)
\* (variant: `and` for `or`)
EnvMissing_And(uri, token) == Falsy(uri) /\ Falsy(token)

\* if not MONGO_URI or not HF_TOKEN: raise ValueError(...)
EnvMissing(uri, token) == Falsy(uri) \/ Falsy(token)

CheckEnv ==
    /\ boot = "load_env"
    /\ boot' = IF EnvMissing(MONGO_URI, HF_TOKEN) THEN "failed" ELSE "connect_mongo"
    /\ UNCHANGED <<MONGO_URI, HF_TOKEN, collection, startup_log, store, accepted, ctx>>

\* where start-up continues after the connect block, whose except clause
\* catches every Exception of MongoClient(...) and of the ping
AfterConnect(outcome) == "hf_client"

\* The try block: MongoClient(MONGO_URI) may raise before `collection` is
\* bound ("client_failed"), the ping may raise after it ("ping_failed").
ConnectOutcomes == {"ok", "ping_failed", "client_failed"}

ConnectMongo(outcome) ==
    /\ boot = "connect_mongo"
    /\ collection' = IF outcome = "client_failed" THEN None ELSE "summaries"
    /\ startup_log' = Append(startup_log,
                             IF outcome = "ok" THEN "Successfully connected to MongoDB"
                                               ELSE "MongoDB Connection Error")
    /\ boot' = AfterConnect(outcome)
    /\ UNCHANGED <<MONGO_URI, HF_TOKEN, store, accepted, ctx>>

CreateHfClient ==
    /\ boot = "hf_client"
    /\ boot' = "serving"
    /\ UNCHANGED <<MONGO_URI, HF_TOKEN, collection, startup_log, store, accepted, ctx>>

(***************************************************************************)
(* Responses.                                                              *)
(***************************************************************************)
HTTPException(code, detail) ==
    [kind |-> "HTTPException", status_code |-> code, detail |-> detail]

\* a handler's return value, sent with status 200
Return(body) ==
    [kind |-> "return", status_code |-> 200, detail |-> NoDetail, body |-> body]

\* an exception that leaves the handler uncaught
Unhandled(what) ==
    [kind |-> "unhandled", status_code |-> 500, detail |-> NoDetail, exc |-> what]

Fixed(s) == [head |-> s, arg |-> <<>>, tail |-> ""]

DetailEmpty == Fixed("Text cannot be empty")
DetailTooLong ==
    [head |-> "Text too long. Maximum ", arg |-> str(max_length),
     tail |-> " characters allowed."]
DetailModelTimeout == Fixed("Model timeout. Please try again.")
DetailConnectionTimeout ==
    Fixed("Connection timeout. The model is warming up. Please try again in a moment.")
DetailAIError(error_msg) == [head |-> "AI Error: ", arg |-> error_msg, tail |-> ""]

(***************************************************************************)
(* POST /summarize                                                         *)
(***************************************************************************)
\* (variant: `if request.text is None`)
IsEmpty_IsNone(t) == FALSE

\* if not request.text
IsEmpty(t) == TextLen(t) = 0

\* (variant: `>=` for `>`)
TooLong_Inclusive(t) == TextLen(t) >= max_length

\* if len(request.text) > max_length
TooLong(t) == TextLen(t) > max_length

\* (variant: `if "time" in error_msg.lower()`)
MessageTimedOut_Time(error_msg) == Contains(<<"t","i","m","e">>, lower(error_msg))

\* if "timed out" in error_msg.lower()
MessageTimedOut(error_msg) == Contains(timed_out, lower(error_msg))

\* the except clause an outcome of the call lands in, and its branch
TimeoutClassified(o) ==
    \/ o.kind = "InferenceTimeoutError"
    \/ o.kind = "Exception" /\ MessageTimedOut(o.msg)

\* (variant: `if attempt < max_retries`)
AttemptsRemain_OneMore(attempt) == attempt < max_retries

\* if attempt < max_retries - 1
AttemptsRemain(attempt) == attempt < max_retries - 1

\* (variant: a constant wait)
WaitTime_Constant(attempt) == 10

\* wait_time = 10 * (attempt + 1)
WaitTime(attempt) == 10 * (attempt + 1)

\* (variant: the detail follows the first except clause whatever the failure)
ExhaustedDetail_Same(o) == DetailModelTimeout

\* the detail of the 504 raised when no attempt remains
ExhaustedDetail(o) ==
    IF o.kind = "InferenceTimeoutError" THEN DetailModelTimeout
                                        ELSE DetailConnectionTimeout

\* result = hf_client.summarization(request.text, model=...)
CallEvent(t, o) == [ev |-> "call", text |-> t, outcome |-> o]
SleepEvent(secs) == [ev |-> "sleep", secs |-> secs]

\* The handler is entered: validation, then the retry loop starts.  A
\* behaviour accepts at most `budget` summarize requests.
SummarizeStart(w, t, budget) ==
    /\ boot = "serving"
    /\ ctx[w].pc = "idle"
    /\ accepted < budget
    /\ accepted' = accepted + 1
    /\ ctx' = [ctx EXCEPT ![w] =
          IF IsEmpty(t)
          THEN [IdleCtx EXCEPT !.pc = "done", !.handler = "summarize_text", !.text = t,
                               !.resp = HTTPException(400, DetailEmpty)]
          ELSE IF TooLong(t)
          THEN [IdleCtx EXCEPT !.pc = "done", !.handler = "summarize_text", !.text = t,
                               !.resp = HTTPException(400, DetailTooLong)]
          ELSE [IdleCtx EXCEPT !.pc = "call", !.handler = "summarize_text", !.text = t,
                               !.attempt = 0]]
    /\ UNCHANGED <<MONGO_URI, HF_TOKEN, boot, collection, startup_log, store>>

\* (variant: no `raise` when the attempts are used up: the loop ends and the
\* handler goes on to save without a summary)
AfterCall_FallThrough(c, o) ==
    LET logged == [c EXCEPT !.log = Append(c.log, CallEvent(c.text, o))] IN
    IF o.kind = "ok"
    THEN [logged EXCEPT !.summary_result = o.summary_text, !.pc = "persist"]
    ELSE IF TimeoutClassified(o)
    THEN IF AttemptsRemain(c.attempt)
         THEN [logged EXCEPT !.wait_time = WaitTime(c.attempt), !.pc = "sleep"]
         ELSE [logged EXCEPT !.pc = "persist"]
    ELSE [logged EXCEPT !.pc = "done",
                        !.resp = HTTPException(500, DetailAIError(o.msg))]

\* (variant: a generic error that is no timeout is swallowed and the handler
\* goes on to save, `summary_result` holding the error message)
AfterCall_Swallow(c, o) ==
    LET logged == [c EXCEPT !.log = Append(c.log, CallEvent(c.text, o))] IN
    IF o.kind = "ok"
    THEN [logged EXCEPT !.summary_result = o.summary_text, !.pc = "persist"]
    ELSE IF TimeoutClassified(o)
    THEN IF AttemptsRemain(c.attempt)
         THEN [logged EXCEPT !.wait_time = WaitTime(c.attempt), !.pc = "sleep"]
         ELSE [logged EXCEPT !.pc = "done",
                             !.resp = HTTPException(504, ExhaustedDetail(o))]
    ELSE [logged EXCEPT !.summary_result = "error", !.pc = "persist"]

\* The handler's locals after one pass through the try statement in which
\* hf_client.summarization(request.text, ...) ended with outcome o.
AfterCall(c, o) ==
    LET logged == [c EXCEPT !.log = Append(c.log, CallEvent(c.text, o))] IN
    IF o.kind = "ok"
    THEN [logged EXCEPT !.summary_result = o.summary_text, !.pc = "persist"]
    ELSE IF TimeoutClassified(o)
    THEN IF AttemptsRemain(c.attempt)
         THEN [logged EXCEPT !.wait_time = WaitTime(c.attempt), !.pc = "sleep"]
         ELSE [logged EXCEPT !.pc = "done",
                             !.resp = HTTPException(504, ExhaustedDetail(o))]
    ELSE [logged EXCEPT !.pc = "done",
                        !.resp = HTTPException(500, DetailAIError(o.msg))]

InferenceCall(w, o) ==
    /\ ctx[w].pc = "call"
    /\ ctx' = [ctx EXCEPT ![w] = AfterCall(ctx[w], o)]
    /\ UNCHANGED <<MONGO_URI, HF_TOKEN, boot, collection, startup_log, store, accepted>>

\* (variant: `attempt` is a module-level counter that every request in the
\* retry loop reads)
Sleep_SharedCounter(w) ==
    /\ ctx[w].pc = "sleep"
    /\ ctx' = [v \in Workers |->
          IF v = w
          THEN [ctx[v] EXCEPT !.log = Append(@, SleepEvent(ctx[w].wait_time)),
                              !.attempt = @ + 1,
                              !.pc = "call"]
          ELSE IF ctx[v].pc \in {"call", "sleep"}
          THEN [ctx[v] EXCEPT !.attempt = @ + 1]
          ELSE ctx[v]]
    /\ UNCHANGED <<MONGO_URI, HF_TOKEN, boot, collection, startup_log, store, accepted>>

\* time.sleep(wait_time); continue
Sleep(w) ==
    /\ ctx[w].pc = "sleep"
    /\ ctx' = [ctx EXCEPT ![w] =
          [@ EXCEPT !.log = Append(@, SleepEvent(ctx[w].wait_time)),
                    !.attempt = @ + 1,
                    !.pc = "call"]]
    /\ UNCHANGED <<MONGO_URI, HF_TOKEN, boot, collection, startup_log, store, accepted>>

Clock == 0..MaxClock

\* record = {"original_text": ..., "summary_text": ..., "created_at": utcnow()}
Record(t, summary, now) ==
    [original_text |-> t, summary_text |-> summary, created_at |-> now]

\* the document as stored: insert_one adds the generated _id
Stored(record, id) ==
    [_id |-> id, original_text |-> record.original_text,
     summary_text |-> record.summary_text, created_at |-> record.created_at]

\* (variant: the response reads the clock again, later)
SummarizeBody_ClockReadAgain(record, id) ==
    [id |-> str(id), summary |-> record.summary_text,
     timestamp |-> record.created_at + 1]

\* the handler's return value
SummarizeBody(record, id) ==
    [id |-> str(id), summary |-> record.summary_text, timestamp |-> record.created_at]

\* (variant: replace_one in place of insert_one)
InsertOne_Replace(docs, d) == <<d>>

\* collection.insert_one(record)
InsertOne(docs, d) == Append(docs, d)

InsertEvent(record, ok) == [ev |-> "insert", doc |-> record, ok |-> ok]

\* Save to MongoDB and return.  insert_one raises when `collection` is
\* unbound or the store cannot be reached (db_up = FALSE); nothing catches it.
Persist(w, now, db_up) ==
    /\ ctx[w].pc = "persist"
    /\ LET record == Record(ctx[w].text, ctx[w].summary_result, now)
           id == Len(store) + 1
           ok == collection # None /\ db_up
           logged == [ctx[w] EXCEPT !.log = Append(@, InsertEvent(record, ok))]
       IN IF ok
          THEN /\ store' = InsertOne(store, Stored(record, id))
               /\ ctx' = [ctx EXCEPT ![w] =
                     [logged EXCEPT !.pc = "done",
                                    !.resp = Return(SummarizeBody(record, id))]]
          ELSE /\ store' = store
               /\ ctx' = [ctx EXCEPT ![w] =
                     [logged EXCEPT !.pc = "done", !.resp = Unhandled("insert_one")]]
    /\ UNCHANGED <<MONGO_URI, HF_TOKEN, boot, collection, startup_log, accepted>>

(***************************************************************************)
(* GET /history                                                            *)
(***************************************************************************)
\* the limit query parameter: absent, or an integer
LimitParams(values) ==
    {[given |-> FALSE, value |-> 0]} \cup {[given |-> TRUE, value |-> n] : n \in values}

Limits == -1..MaxLimit

\* def get_history(limit: int = 10)
LimitOf(q) == IF q.given THEN q.value ELSE default_limit

\* the projection {"_id": 0}
Project(d) ==
    [original_text |-> d.original_text, summary_text |-> d.summary_text,
     created_at |-> d.created_at]

\* (variant: ascending sort)
SortOrders_Ascending(docs) ==
    { p \in [1..Len(docs) -> 1..Len(docs)] :
        /\ \A i, j \in 1..Len(docs) : i # j => p[i] # p[j]
        /\ \A i, j \in 1..Len(docs) :
              i < j => docs[p[i]].created_at <= docs[p[j]].created_at }

\* .sort("created_at", -1): the orders of the documents 1..Len(docs) in which
\* created_at never increases; documents with equal created_at come in any order
SortOrders(docs) ==
    { p \in [1..Len(docs) -> 1..Len(docs)] :
        /\ \A i, j \in 1..Len(docs) : i # j => p[i] # p[j]
        /\ \A i, j \in 1..Len(docs) :
              i < j => docs[p[i]].created_at >= docs[p[j]].created_at }

\* .limit(limit): how many of n sorted documents the cursor yields.  A limit
\* of 0 is no limit; a negative limit yields abs(limit) documents at most.
LimitCount(limit, n) ==
    LET m == IF limit < 0 THEN -limit ELSE limit
    IN IF limit = 0 THEN n ELSE IF m < n THEN m ELSE n

\* list(collection.find({}, {"_id": 0}).sort("created_at", -1).limit(limit))
Find(docs, limit) ==
    { [i \in 1..LimitCount(limit, Len(docs)) |-> Project(docs[p[i]])] :
        p \in SortOrders(docs) }

HistoryBody(history) == [count |-> Len(history), data |-> history]

\* The query raises when `collection` is unbound or the store cannot be
\* reached (db_up = FALSE); nothing catches it.
GetHistory(w, q, db_up) ==
    /\ boot = "serving"
    /\ ctx[w].pc = "idle"
    /\ IF collection # None /\ db_up
       THEN \E history \in Find(store, LimitOf(q)) :
               ctx' = [ctx EXCEPT ![w] =
                  [IdleCtx EXCEPT !.pc = "done", !.handler = "get_history",
                                  !.limit = LimitOf(q),
                                  !.resp = Return(HistoryBody(history))]]
       ELSE ctx' = [ctx EXCEPT ![w] =
                  [IdleCtx EXCEPT !.pc = "done", !.handler = "get_history",
                                  !.limit = LimitOf(q),
                                  !.resp = Unhandled("find")]]
    /\ UNCHANGED <<MONGO_URI, HF_TOKEN, boot, collection, startup_log, store, accepted>>

(***************************************************************************)
(* GET /                                                                   *)
(***************************************************************************)
RootBody == [status |-> "running", message |-> "Go to /docs for Swagger UI"]

Root(w) ==
    /\ boot = "serving"
    /\ ctx[w].pc = "idle"
    /\ ctx' = [ctx EXCEPT ![w] =
          [IdleCtx EXCEPT !.pc = "done", !.handler = "root", !.resp = Return(RootBody)]]
    /\ UNCHANGED <<MONGO_URI, HF_TOKEN, boot, collection, startup_log, store, accepted>>

\* The response has been sent; the worker context takes the next request.
Finish(w) ==
    /\ ctx[w].pc = "done"
    /\ ctx' = [ctx EXCEPT ![w] = IdleCtx]
    /\ UNCHANGED <<MONGO_URI, HF_TOKEN, boot, collection, startup_log, store, accepted>>

(***************************************************************************)
(* The system, for an environment that sends the texts of `texts`, whose   *)
(* inference client ends a call with an outcome of `outcomes`, whose clock *)
(* reads a value of `clock`, and that queries the history with the limits  *)
(* of `limits`.                                                            *)
(***************************************************************************)
Run(texts, outcomes, clock, limits, budget) ==
    \/ CheckEnv
    \/ \E outcome \in ConnectOutcomes : ConnectMongo(outcome)
    \/ CreateHfClient
    \/ \E w \in Workers, t \in texts : SummarizeStart(w, t, budget)
    \/ \E w \in Workers, o \in outcomes : InferenceCall(w, o)
    \/ \E w \in Workers : Sleep(w)
    \/ \E w \in Workers, now \in clock, db_up \in BOOLEAN : Persist(w, now, db_up)
    \/ \E w \in Workers, q \in LimitParams(limits), db_up \in BOOLEAN :
          GetHistory(w, q, db_up)
    \/ \E w \in Workers : Root(w)
    \/ \E w \in Workers : Finish(w)

\* Every text and every client behaviour, one summarize request at a time.
Next == Run(Texts, Outcomes, Clock, Limits, MaxRequests)

Spec == Init /\ [][Next]_vars

(***************************************************************************)
(* The same system under load: requests interleave on both workers and the *)
(* store fills.  The client answers with either summary, with a typed      *)
(* timeout or with a generic error.                                        *)
(***************************************************************************)
\* summarize requests accepted in one behaviour of SpecStore
MaxStoreRequests == 2

StoreTexts == { t \in Texts : TextLen(t) >= max_length }

StoreOutcomes == { o \in Outcomes : o.kind = "Exception" => o.msg = MsgTimeout }

NextStore == Run(StoreTexts, StoreOutcomes, Clock, Limits, MaxStoreRequests)

SpecStore == Init /\ [][NextStore]_vars

(***************************************************************************)
(* Vocabulary of the properties.                                           *)
(***************************************************************************)
\* the two letters are the same up to case
SameLetter(a, b) ==
    a = b \/ \E i \in 1..Len(UpperCase) : {a, b} = {UpperCase[i], LowerCase[i]}

\* the message contains "timed out" in some letter case
SaysTimedOut(m) ==
    \E i \in 0..(Len(m) - 9) :
        \A k \in 1..9 :
            SameLetter(m[i + k], <<"t","i","m","e","d"," ","o","u","t">>[k])

\* a timeout-classified failure of one inference call
TimeoutFailure(o) ==
    \/ o.kind = "InferenceTimeoutError"
    \/ o.kind = "Exception" /\ SaysTimedOut(o.msg)

\* a failure that is not timeout-classified
OtherFailure(o) == o.kind = "Exception" /\ ~SaysTimedOut(o.msg)

IsCall(e) == e.ev = "call"
IsSleep(e) == e.ev = "sleep"
IsInsert(e) == e.ev = "insert"

CallsOf(c) == SelectSeq(c.log, IsCall)
SleepsOf(c) == SelectSeq(c.log, IsSleep)
InsertsOf(c) == SelectSeq(c.log, IsInsert)

Summarizing(c) == c.handler = "summarize_text"
Ended(c) == c.pc = "done"
EndedWith(c, code) ==
    /\ Ended(c)
    /\ c.resp.kind \in {"return", "HTTPException"}
    /\ c.resp.status_code = code

ValidText(t) == TextLen(t) >= 1 /\ TextLen(t) <= 1024

\* the first k calls failed with a timeout-classified failure and call k + 1
\* succeeded
SucceededAfter(c, k) ==
    LET calls == CallsOf(c) IN
    /\ Len(calls) >= k + 1
    /\ \A i \in 1..k : TimeoutFailure(calls[i].outcome)
    /\ calls[k + 1].outcome.kind = "ok"

\* the documents of the store that carry the identifier of a 200 response
RecordsOf(c) == { i \in 1..Len(store) : str(store[i]._id) = c.resp.body.id }

\* the request ended with 200 for the summary of call k + 1 and stored it
Ended200(c, k) ==
    LET summary == CallsOf(c)[k + 1].outcome.summary_text IN
    /\ EndedWith(c, 200)
    /\ c.resp.kind = "return"
    /\ c.resp.body.summary = summary
    /\ Len(InsertsOf(c)) = 1
    /\ InsertsOf(c)[1].ok
    /\ Cardinality(RecordsOf(c)) = 1
    /\ \A i \in RecordsOf(c) :
          /\ store[i].original_text = c.text
          /\ store[i].summary_text = summary
          /\ store[i].created_at = c.resp.body.timestamp

\* the insert raised: the request ended with the uncaught exception and
\* no document of it is stored
EndedInsertFailed(c) ==
    /\ Ended(c)
    /\ c.resp.kind = "unhandled"
    /\ Len(InsertsOf(c)) = 1
    /\ ~InsertsOf(c)[1].ok

\* a request never ends while every call so far timed out and attempts remain
NoEarlyGiveUp(c) ==
    LET calls == CallsOf(c) IN
    (Ended(c) /\ Len(calls) > 0 /\ \A i \in 1..Len(calls) : TimeoutFailure(calls[i].outcome))
        => Len(calls) = 3

AllTimedOut(c) ==
    /\ Summarizing(c)
    /\ Len(CallsOf(c)) = 3
    /\ \A i \in 1..3 : TimeoutFailure(CallsOf(c)[i].outcome)

\* call, sleep(10), call, sleep(20), call
ExhaustedLog(c) ==
    /\ Len(c.log) = 5
    /\ IsCall(c.log[1]) /\ IsCall(c.log[3]) /\ IsCall(c.log[5])
    /\ IsSleep(c.log[2]) /\ c.log[2].secs = 10
    /\ IsSleep(c.log[4]) /\ c.log[4].secs = 20

C2_Step ==
    \A w \in Workers :
        /\ Summarizing(ctx'[w]) => NoEarlyGiveUp(ctx'[w])
        /\ AllTimedOut(ctx'[w]) =>
              /\ EndedWith(ctx'[w], 504)
              /\ ctx'[w].resp.kind = "HTTPException"
              /\ ExhaustedLog(ctx'[w])
              /\ ctx'[w] # ctx[w] => store' = store

C2_AllTimeouts == [][C2_Step]_vars

C2_Witness ==
    \E w \in Workers : AllTimedOut(ctx[w]) /\ EndedWith(ctx[w], 504)

(***************************************************************************)
(* C3: when an inference attempt fails with an error that is not           *)
(* timeout-classified, on whichever attempt, the request ends with 500     *)
(* carrying the underlying error message, no inference call and no sleep   *)
(* follows that attempt, and the store is unchanged; on the first attempt  *)
(* that makes exactly one inference call and no sleep.                     *)
(***************************************************************************)
C3_Step ==
    \A w \in Workers :
        \A i \in 1..Len(ctx'[w].log) :
            (Summarizing(ctx'[w]) /\ IsCall(ctx'[w].log[i])
                /\ OtherFailure(ctx'[w].log[i].outcome))
            => /\ i = Len(ctx'[w].log)
               /\ EndedWith(ctx'[w], 500)
               /\ ctx'[w].resp.kind = "HTTPException"
               /\ ctx'[w].resp.detail.head = "AI Error: "
               /\ ctx'[w].resp.detail.arg = ctx'[w].log[i].outcome.msg
               /\ ctx'[w].resp.detail.tail = ""
               /\ i = 1 => (Len(CallsOf(ctx'[w])) = 1 /\ SleepsOf(ctx'[w]) = <<>>)
               /\ ctx'[w] # ctx[w] => store' = store

C3_OtherErrorFailsAtOnce == [][C3_Step]_vars

\* a non-timeout error on the third attempt, after two sleeps
C3_Witness ==
    \E w \in Workers :
        /\ Len(ctx[w].log) = 5
        /\ IsCall(ctx[w].log[5])
        /\ OtherFailure(ctx[w].log[5].outcome)
        /\ EndedWith(ctx[w], 500)

(***************************************************************************)
(* C4: a summarize request whose text is empty ends with 400; no inference *)
(* call, no sleep and no insert is made and the store is unchanged.        *)
(***************************************************************************)
C4_Step ==
    \A w \in Workers :
        (Summarizing(ctx'[w]) /\ TextLen(ctx'[w].text) = 0)
        => /\ EndedWith(ctx'[w], 400)
           /\ ctx'[w].resp.kind = "HTTPException"
           /\ ctx'[w].log = <<>>
           /\ ctx'[w] # ctx[w] => store' = store

C4_EmptyText == [][C4_Step]_vars

C4_Witness ==
    \E w \in Workers :
        Summarizing(ctx[w]) /\ TextLen(ctx[w].text) = 0 /\ EndedWith(ctx[w], 400)

(***************************************************************************)
(* C5: a summarize request is rejected with 400 for its length exactly     *)
(* when its text has more than 1024 characters: such a request makes no    *)
(* inference call and writes no record, while a text of 1 to 1024          *)
(* characters passes validation and is the text of every inference call.   *)
(***************************************************************************)
RejectedForLength(c) ==
    /\ EndedWith(c, 400)
    /\ c.resp.kind = "HTTPException"
    /\ c.resp.detail.head = "Text too long. Maximum "

C5_Step ==
    \A w \in Workers :
        Summarizing(ctx'[w]) =>
            /\ RejectedForLength(ctx'[w]) <=> TextLen(ctx'[w].text) > 1024
            /\ TextLen(ctx'[w].text) > 1024 =>
                  /\ ctx'[w].log = <<>>
                  /\ ctx'[w] # ctx[w] => store' = store
            /\ ValidText(ctx'[w].text) =>
                  /\ ~EndedWith(ctx'[w], 400)
                  /\ ctx'[w].pc = "call" \/ ctx'[w].log # <<>>
                  /\ \A i \in 1..Len(ctx'[w].log) :
                        IsCall(ctx'[w].log[i]) => ctx'[w].log[i].text = ctx'[w].text

C5_LengthLimit == [][C5_Step]_vars

\* a text of exactly 1024 characters reached the inference client
C5_Witness ==
    \E w \in Workers :
        /\ Summarizing(ctx[w])
        /\ TextLen(ctx[w].text) = 1024
        /\ Len(CallsOf(ctx[w])) >= 1
        /\ CallsOf(ctx[w])[1].text = ctx[w].text

(***************************************************************************)
(* C6: every record of the store has an original_text of 1 to 1024         *)
(* characters and a summary_text that a successful inference call on that  *)
(* text returned to the request that inserted it; a request that ends with *)
(* 400, 500 or 504 inserts nothing.                                        *)
(***************************************************************************)
\* the step of worker w stored document d for a request that succeeded
InsertedBy(w, d) ==
    LET c == ctx'[w]
        calls == CallsOf(c)
    IN /\ ctx[w].pc = "persist"
       /\ Summarizing(c)
       /\ EndedWith(c, 200)
       /\ Len(calls) >= 1
       /\ calls[Len(calls)].outcome.kind = "ok"
       /\ calls[Len(calls)].text = d.original_text
       /\ calls[Len(calls)].outcome.summary_text = d.summary_text
       /\ c.text = d.original_text

C6_Step ==
    /\ \A i \in 1..Len(store') :
          /\ ValidText(store'[i].original_text)
          /\ store'[i].summary_text \in Summaries
    /\ store' # store =>
          /\ Len(store') = Len(store) + 1
          /\ \E w \in Workers : InsertedBy(w, store'[Len(store')])
    /\ \A w \in Workers :
          (Summarizing(ctx'[w]) /\ Ended(ctx'[w])
              /\ ctx'[w].resp.kind = "HTTPException")
          => /\ ctx'[w].resp.status_code \in {400, 500, 504}
             /\ InsertsOf(ctx'[w]) = <<>>
             /\ ctx'[w] # ctx[w] => store' = store

C7_Step ==
    /\ Len(store') >= Len(store)
    /\ \A i \in 1..Len(store) : store'[i] = store[i]
    /\ store' # store =>
          /\ Len(store') = Len(store) + 1
          /\ \E w \in Workers :
                /\ ctx[w].pc = "persist"
                /\ Summarizing(ctx'[w])
                /\ EndedWith(ctx'[w], 200)
                /\ \A v \in Workers \ {w} : ctx'[v] = ctx[v]
    /\ \A w \in Workers :
          (ctx'[w] # ctx[w] /\ ctx'[w].handler \in {"get_history", "root"})
          => store' = store

C7_StoreOnlyGrows == [][C7_Step]_vars

\* a history request has been answered while two records are stored
C7_Witness ==
    /\ Len(store) = 2
    /\ \E w \in Workers : ctx[w].handler = "get_history" /\ EndedWith(ctx[w], 200)

(***************************************************************************)
(* C8: for a store of N records and a limit >= 1 (default 10) the history  *)
(* endpoint returns exactly min(limit, N) records, which are records with  *)
(* the latest created_at, in descending created_at order and without the   *)
(* identifier field, and count is the length of data; with N = 0 it        *)
(* returns count 0 and an empty data list.                                 *)
(***************************************************************************)
Min(a, b) == IF a < b THEN a ELSE b

\* data lists distinct documents of docs, and every document left out is at
\* most as recent as every document listed
LatestOf(data, docs) ==
    \E pick \in [1..Len(data) -> 1..Len(docs)] :
        /\ \A i, j \in 1..Len(data) : i # j => pick[i] # pick[j]
        /\ \A i \in 1..Len(data) :
              /\ data[i].original_text = docs[pick[i]].original_text
              /\ data[i].summary_text = docs[pick[i]].summary_text
              /\ data[i].created_at = docs[pick[i]].created_at
        /\ \A k \in 1..Len(docs) :
              (\A i \in 1..Len(data) : pick[i] # k)
              => \A i \in 1..Len(data) : docs[k].created_at <= data[i].created_at

\* worker w answers a history request in this step
HistoryAnswered(w) ==
    /\ ctx[w].pc = "idle"
    /\ ctx'[w].handler = "get_history"
    /\ ctx'[w].resp.kind = "return"

C8_Step ==
    \A w \in Workers :
        HistoryAnswered(w) =>
            LET body == ctx'[w].resp.body
                limit == ctx'[w].limit
                N == Len(store)
            IN /\ ctx'[w].resp.status_code = 200
               /\ body.count = Len(body.data)
               /\ N = 0 => (body.count = 0 /\ body.data = <<>>)
               /\ limit >= 1 =>
                     /\ Len(body.data) = Min(limit, N)
                     /\ LatestOf(body.data, store)
                     /\ \A i, j \in 1..Len(body.data) :
                           i < j => body.data[i].created_at >= body.data[j].created_at
                     /\ \A i \in 1..Len(body.data) :
                           DOMAIN body.data[i] =
                               {"original_text", "summary_text", "created_at"}

C9_ErrorsTranslated ==
    \A w \in Workers :
        (Summarizing(ctx[w]) /\ Ended(ctx[w]) /\ ctx[w].resp.kind # "return")
        => /\ ctx[w].resp.kind = "HTTPException"
           /\ ctx[w].resp.status_code \in {400, 500, 504}
           /\ ctx[w].resp.detail.head # ""

(***************************************************************************)
(* C10: if the connection string or the API key is missing, start-up fails *)
(* before any connection or connectivity check and no request is ever     *)
(* served; if both are present, start-up goes on to serve the endpoints   *)
(* whether the connectivity check succeeds or fails.                       *)
(***************************************************************************)
Missing(v) == v = None
Present(v) == v = "set"

NothingServed == accepted = 0 /\ \A w \in Workers : ctx[w] = IdleCtx

StartupStep == CheckEnv \/ (\E o \in ConnectOutcomes : ConnectMongo(o)) \/ CreateHfClient

C10_StartupOrder ==
    /\ (Missing(MONGO_URI) \/ Missing(HF_TOKEN)) =>
          /\ boot \in {"load_env", "failed"}
          /\ startup_log = <<>>
          /\ collection = None
          /\ NothingServed
    /\ (Present(MONGO_URI) /\ Present(HF_TOKEN)) =>
          /\ boot # "failed"
          /\ boot # "serving" => ENABLED StartupStep
          /\ startup_log # <<>> => boot \in {"hf_client", "serving"}
    /\ boot # "serving" => NothingServed

\* the connectivity check failed and a request has been answered
C10_Witness ==
    /\ boot = "serving"
    /\ startup_log = <<"MongoDB Connection Error">>
    /\ \E w \in Workers : EndedWith(ctx[w], 200)

(***************************************************************************)
(* C11: a summarize request makes at most 3 inference calls and at most 2  *)
(* sleeps; a sleep happens only directly after a timeout-classified        *)
(* failure of attempt 1 or 2 and directly before the next attempt, the     *)
(* sleep after the attempt with 0-based index i lasts 10 * (i + 1)         *)
(* seconds, and the total sleep of a request is 0, 10 or 30 seconds.       *)
(***************************************************************************)
\* the number of calls among the first n events of the log
RECURSIVE CallsBefore(_, _)
CallsBefore(log, n) ==
    IF n = 0 THEN 0
    ELSE CallsBefore(log, n - 1) + (IF IsCall(log[n]) THEN 1 ELSE 0)

RECURSIVE TotalSleep(_)
TotalSleep(sleeps) ==
    IF sleeps = <<>> THEN 0 ELSE Head(sleeps).secs + TotalSleep(Tail(sleeps))

SleepInPlace(c, i) ==
    /\ i > 1
    /\ IsCall(c.log[i - 1])
    /\ TimeoutFailure(c.log[i - 1].outcome)
    /\ CallsBefore(c.log, i) \in {1, 2}
    /\ c.log[i].secs = 10 * CallsBefore(c.log, i)
    /\ IF i < Len(c.log) THEN IsCall(c.log[i + 1]) ELSE c.pc = "call"

C11_BoundedRetry ==
    \A w \in Workers :
        Summarizing(ctx[w]) =>
            /\ Len(CallsOf(ctx[w])) <= 3
            /\ Len(SleepsOf(ctx[w])) <= 2
            /\ \A i \in 1..Len(ctx[w].log) :
                  IsSleep(ctx[w].log[i]) => SleepInPlace(ctx[w], i)
            /\ TotalSleep(SleepsOf(ctx[w])) \in {0, 10, 30}

\* a request that slept 30 seconds in all and made its third call
C11_Witness ==
    \E w \in Workers :
        /\ Summarizing(ctx[w])
        /\ TotalSleep(SleepsOf(ctx[w])) = 30
        /\ Len(CallsOf(ctx[w])) = 3

(***************************************************************************)
(* C12: both timeout classifications share one attempt counter: a          *)
(* summarize request with valid text ends with 504 if and only if each of  *)
(* its 3 attempts failed with a timeout-classified failure, in any mix of  *)
(* the typed and the message kind, and the kind of the third failure alone *)
(* decides which of the two 504 details is returned.                       *)
(***************************************************************************)
Typed(o) == o.kind = "InferenceTimeoutError"

C12_SharedCounter ==
    \A w \in Workers :
        (Summarizing(ctx[w]) /\ Ended(ctx[w]) /\ ValidText(ctx[w].text)) =>
            /\ EndedWith(ctx[w], 504) <=> AllTimedOut(ctx[w])
            /\ EndedWith(ctx[w], 504) =>
                  /\ ctx[w].resp.kind = "HTTPException"
                  /\ ctx[w].resp.detail.arg = <<>>
                  /\ ctx[w].resp.detail.head =
                        IF Typed(CallsOf(ctx[w])[3].outcome)
                        THEN "Model timeout. Please try again."
                        ELSE "Connection timeout. The model is warming up. Please try again in a moment."

\* typed, then by message, then by message: 504 with the second detail
C12_Witness ==
    \E w \in Workers :
        /\ AllTimedOut(ctx[w])
        /\ Typed(CallsOf(ctx[w])[1].outcome)
        /\ ~Typed(CallsOf(ctx[w])[2].outcome)
        /\ ~Typed(CallsOf(ctx[w])[3].outcome)
        /\ EndedWith(ctx[w], 504)
        /\ ctx[w].resp.detail.head =
              "Connection timeout. The model is warming up. Please try again in a moment."

(***************************************************************************)
(* C13: under any interleaving of summarize requests each request keeps    *)
(* its own attempt counter and its own summary: its outcome depends only   *)
(* on its own text and on the results of its own inference calls and       *)
(* insert, a timeout or sleep of one request never consumes an attempt of  *)
(* another, and the store holds one record per request whose insert has    *)
(* completed.                                                              *)
(***************************************************************************)
\* the status a request must end with, given its own text, calls and insert
OwnStatus(c) ==
    LET calls == CallsOf(c) IN
    IF TextLen(c.text) = 0 \/ TextLen(c.text) > 1024 THEN 400
    ELSE IF calls # <<>> /\ OtherFailure(calls[Len(calls)].outcome) THEN 500
    ELSE IF calls # <<>> /\ TimeoutFailure(calls[Len(calls)].outcome) THEN 504
    ELSE IF InsertsOf(c) # <<>> /\ InsertsOf(c)[1].ok THEN 200
    ELSE 500

\* the request's locals follow from its own log
OwnProgress(c) ==
    LET calls == CallsOf(c) IN
    /\ c.attempt = Len(SleepsOf(c))
    /\ c.attempt <= 2
    /\ Len(calls) \in {c.attempt, c.attempt + 1}
    /\ c.pc = "call" => Len(calls) = c.attempt
    /\ c.pc = "sleep" =>
          /\ Len(calls) = c.attempt + 1
          /\ c.wait_time = 10 * (c.attempt + 1)
    /\ \A i \in 1..Len(calls) : calls[i].text = c.text
    /\ c.pc = "persist" =>
          /\ calls[Len(calls)].outcome.kind = "ok"
          /\ c.summary_result = calls[Len(calls)].outcome.summary_text
    /\ Ended(c) =>
          /\ c.resp.status_code = OwnStatus(c)
          /\ c.resp.kind = "return" =>
                /\ c.resp.body.summary = calls[Len(calls)].outcome.summary_text
                /\ InsertsOf(c)[1].doc.original_text = c.text
                /\ InsertsOf(c)[1].doc.summary_text = c.resp.body.summary

\* worker w completed its insert in this step
InsertCompleted(w) ==
    /\ ctx[w].pc = "persist"
    /\ InsertsOf(ctx'[w]) # <<>>
    /\ InsertsOf(ctx'[w])[1].ok

C13_Step ==
    /\ \A w, v \in Workers : (ctx'[w] # ctx[w] /\ ctx'[v] # ctx[v]) => w = v
    /\ \A w \in Workers : Summarizing(ctx'[w]) => OwnProgress(ctx'[w])
    /\ Len(store') = Len(store) + Cardinality({w \in Workers : InsertCompleted(w)})
    /\ \A w \in Workers :
          InsertCompleted(w) =>
              /\ store'[Len(store')].original_text = ctx'[w].text
              /\ store'[Len(store')].summary_text = ctx'[w].resp.body.summary
              /\ str(store'[Len(store')]._id) = ctx'[w].resp.body.id
    /\ \A i, j \in 1..Len(store') : i # j => store'[i]._id # store'[j]._id

C13_Isolation == [][C13_Step]_vars

\* one request has stored its record after a retry while another, with a
\* different summary at hand, is still before its insert
C13_Witness ==
    \E w, v \in Workers :
        /\ w # v
        /\ Summarizing(ctx[w]) /\ EndedWith(ctx[w], 200) /\ ctx[w].attempt = 1
        /\ Summarizing(ctx[v]) /\ ctx[v].pc = "persist" /\ ctx[v].attempt = 2
        /\ ctx[v].summary_result # ctx[w].resp.body.summary
        /\ Len(store) = 1

(***************************************************************************)
(* The system when every inference call, every sleep and every insert      *)
(* returns or raises: a request that waits for one of them goes on.        *)
(***************************************************************************)
Returns(w) ==
    \/ \E o \in Outcomes : InferenceCall(w, o)
    \/ Sleep(w)
    \/ \E db_up \in BOOLEAN : Persist(w, 0, db_up)

\* Every text and every client behaviour; the clock and the history queries,
\* which no step of the retry loop reads, are kept to one value each.
NextFair == Run(Texts, Outcomes, {0}, {1}, MaxRequests)

SpecFair == Init /\ [][NextFair]_vars /\ \A w \in Workers : WF_vars(Returns(w))

(***************************************************************************)
(* C14: every summarize request terminates: it reaches exactly one final   *)
(* outcome among 200, 400, 500 and 504 after at most 3 attempts, and the   *)
(* persist step is never reached without the summary of a successful       *)
(* attempt.                                                                *)
(***************************************************************************)
InFlight(c) == Summarizing(c) /\ c.pc \in {"call", "sleep", "persist"}

C14_Safe(c) ==
    /\ Summarizing(c) => c.pc \in {"call", "sleep", "persist", "done"}
    /\ Summarizing(c) => Len(CallsOf(c)) <= 3
    /\ InFlight(c) => c.resp.kind = "none"
    /\ (Summarizing(c) /\ Ended(c)) =>
          /\ c.resp.kind \in {"return", "HTTPException", "unhandled"}
          /\ c.resp.status_code \in {200, 400, 500, 504}
    /\ (Summarizing(c) /\ (c.pc = "persist" \/ InsertsOf(c) # <<>>)) =>
          /\ c.summary_result \in Summaries
          /\ CallsOf(c) # <<>>
          /\ CallsOf(c)[Len(CallsOf(c))].outcome.kind = "ok"
          /\ CallsOf(c)[Len(CallsOf(c))].outcome.summary_text = c.summary_result

C14_Terminates ==
    \A w \in Workers :
        /\ [](C14_Safe(ctx[w]))
        /\ InFlight(ctx[w]) ~> (Summarizing(ctx[w]) /\ Ended(ctx[w]))

\* a request that used all 3 attempts has ended
C14_Witness ==
    \E w \in Workers :
        /\ Summarizing(ctx[w])
        /\ Ended(ctx[w])
        /\ Len(CallsOf(ctx[w])) = 3
        /\ ctx[w].resp.status_code \in {200, 400, 500, 504}

(***************************************************************************)
(* C15: the history endpoint never returns more records than the limit,    *)
(* for every non-negative limit: with limit = 0 and a non-empty store it   *)
(* returns count 0 and an empty data list.                                 *)
(***************************************************************************)
C15_AtMostLimit ==
    \A w \in Workers :
        (ctx[w].handler = "get_history" /\ EndedWith(ctx[w], 200) /\ ctx[w].limit >= 0)
        => /\ ctx[w].resp.body.count <= ctx[w].limit
           /\ Len(ctx[w].resp.body.data) <= ctx[w].limit

====
